---- MODULE Spec2Model ----
(***************************************************************************)
(* TropiTrek chat frontend: the Root Controller (App.tsx, ChatInterface),  *)
(* the Input Box (UserInput), the HTTP client (chatAPI), the PDF section   *)
(* of the Message Renderer (MessageBubble) and the PDF Preview Modal       *)
(* (PdfPreviewModal).                                                      *)
(*                                                                         *)
(* Texts are modelled by their shape: `lead` whitespace characters, then   *)
(* a non-blank content named `tag` of `body` characters, then `trail`      *)
(* whitespace characters.  Length and trim are computed on that shape.     *)
(* JavaScript values that may be undefined are strings, with Undef for     *)
(* undefined and JsTrue / JsFalse for the booleans.                        *)
(***************************************************************************)
EXTENDS Integers, Sequences, FiniteSets, TLC

VARIABLES
    \* ---- Root Controller state (App.tsx 11-15)
    messages,       \* Message[]                       useState([])
    isLoading,      \* boolean                         useState(false)
    inputValue,     \* text of the input box           useState("")
    sessionId,      \* string                          useState("")
    availablePdfs,  \* pdfId -> label                  useState({})
    \* ---- Input Box local state (UserInput)
    charCount,      \* number                          useState(0)
    \* ---- what the last committed render shows and its handlers close over
    view,
    \* ---- asynchronous calls and their observable effects
    inflight,       \* chatAPI.sendMessage calls not yet resumed by the handler
    wire,           \* log of POST /chat requests sent and results settled
    health,         \* "pending" | "done": the mount-time health check
    toasts,         \* number of toasts shown, per kind
    downloads,      \* log of the handlePdfDownload calls and how each ended
    fetched,        \* the URLs fetch was called with
    envBaseUrl,     \* import.meta.env.VITE_API_BASE_URL of the deployment
    \* ---- message ids (Message.id, kept beside the list: ids[i] is the id of
    \*      messages[i]) and the clock they are read from
    clock,          \* Date.now()
    ids,            \* the id of each turn of messages, in list order
    \* ---- Message Renderer (MessageBubble.tsx), one assistant turn
    rContent,       \* message.content, a sequence of characters
    rBlocks,        \* the image blocks of the rendered turn
    rCards,         \* the PDF cards of the rendered turn
    rVideos,        \* the video blocks of the rendered turn
    rLines,         \* the text lines of the rendered turn
    rDone,          \* the turn has been rendered
    \* ---- PDF Preview Modal (PdfPreviewModal.tsx)
    isOpen,         \* prop
    pdfContent,     \* prop
    isEditing,      \* useState(false)
    editedContent,  \* useState(pdfContent)
    hasChanges,     \* useState(false)
    callbacks,      \* log of the onSaveEdits, onDownload and onClose invocations
    lastEvent       \* the modal event handled last, and the editor text before it

callVars == <<downloads, fetched, envBaseUrl>>
idVars == <<clock, ids>>
appVars == <<messages, isLoading, inputValue, sessionId, availablePdfs,
             charCount, view, inflight, wire, health, toasts, callVars, idVars>>
renderVars == <<rContent, rBlocks, rCards, rVideos, rLines, rDone>>
modalVars == <<isOpen, pdfContent, isEditing, editedContent, hasChanges,
               callbacks, lastEvent>>
vars == <<appVars, modalVars, renderVars>>

----------------------------------------------------------------------------
\* Bounds of the model

\* user submissions (POST /chat requests) explored
MaxSends == 2
\* callback invocations of the preview modal explored
MaxCallbacks == 3
\* PDF downloads explored
MaxDownloads == 2
\* characters of a rendered assistant text explored
MaxContentLen == 5
MaxLineLen == 4
MaxClock == 2

----------------------------------------------------------------------------
\* JavaScript values

Undef == "undefined"
JsTrue == "true"
JsFalse == "false"

\* JavaScript truthiness of a boolean, string or undefined value
Truthy(v) == v \notin {Undef, JsFalse, ""}

\* a || undefined
OrUndefined(v) == IF Truthy(v) THEN v ELSE Undef

----------------------------------------------------------------------------
\* Texts

Txt(lead, tag, body, trail) ==
    [lead |-> lead, tag |-> tag, body |-> body, trail |-> trail]

EmptyText == Txt(0, "", 0, 0)

\* String.prototype.length
Length(t) == t.lead + t.body + t.trail

\* String.prototype.trim()
Trim(t) == IF t.body = 0 THEN EmptyText ELSE Txt(0, t.tag, t.body, 0)

\* truthiness of a string: non-empty
NonEmpty(t) == Length(t) > 0

maxChars == 1000

\* what the user may type or paste into the textarea
TypedTexts ==
    { EmptyText,
      Txt(1, "", 0, 0),
      Txt(1, "x", maxChars - 2, 1),
      Txt(0, "x", maxChars + 1, 0) }

\* the prompt gallery of the empty-conversation state
PromptTexts ==
    { Txt(0, "I would like to explore the Waitukubuli trail over 5 days.", 58, 0),
      Txt(0, "Give me an itinerary based around visiting the The Heritage Collection Museum.", 78, 0),
      Txt(0, "I want to go on a 3 day retreat to visit Fort Charlotte.", 56, 0),
      Txt(0, "I want to plan a visit to Nelson's Dockyard with my family of 4.", 64, 0) }

\* the fixed fallback apology of the catch branch (176 UTF-16 units, with the
\* leading palm-tree emoji and its space)
FallbackText ==
    Txt(0, "Sorry, I'm having trouble connecting right now. Please make sure the TropicTrek backend is running and try again. I'm here to help you plan your perfect Caribbean adventure!", 176, 0)

\* reply texts of the backend
ReplyTexts == { Txt(0, "Here is your itinerary", 22, 0) }

----------------------------------------------------------------------------
\* Message model (lib/types.ts)

UserTurn(content) ==
    [sender |-> "user", content |-> content, pdfId |-> Undef, pdfGenerated |-> Undef]

\* aiMessage of the success branch: the reply's fields are copied as they are
AiTurn(response) ==
    [sender |-> "ai", content |-> response.response,
     pdfId |-> response.pdf_id, pdfGenerated |-> response.pdf_generated]

\* errorMessage of the catch branch
ErrorTurn ==
    [sender |-> "ai", content |-> FallbackText, pdfId |-> Undef, pdfGenerated |-> Undef]

----------------------------------------------------------------------------
\* HTTP client (lib/api.ts)

SessionIds == {"", "s1", "s2"}
PdfIdValues == {Undef, "", "p1"}

\* a JSON body of POST /chat: null, or a ChatResponse object
NullBody ==
    [isNull |-> TRUE, response |-> EmptyText, session_id |-> "",
     pdf_generated |-> JsFalse, pdf_id |-> Undef]

\* the replies explored: every session id, and every pdf_generated / pdf_id pair
ChatResponses ==
    [isNull : {FALSE}, response : ReplyTexts, session_id : SessionIds,
     pdf_generated : {JsFalse}, pdf_id : {Undef}]
    \cup [isNull : {FALSE}, response : ReplyTexts, session_id : {"s1"},
          pdf_generated : {JsTrue, JsFalse}, pdf_id : PdfIdValues]

\* what the network and the backend may do with one request
\* (reached: fetch resolved; ok: a 2xx status; jsonOk: the body parses as JSON)
HttpOutcomes ==
    { [reached |-> FALSE, ok |-> FALSE, jsonOk |-> FALSE, body |-> NullBody],
      [reached |-> TRUE, ok |-> FALSE, jsonOk |-> TRUE, body |-> NullBody],
      [reached |-> TRUE, ok |-> FALSE, jsonOk |-> FALSE, body |-> NullBody],
      [reached |-> TRUE, ok |-> TRUE, jsonOk |-> FALSE, body |-> NullBody],
      [reached |-> TRUE, ok |-> TRUE, jsonOk |-> TRUE, body |-> NullBody] }
    \cup [reached : {TRUE}, ok : {TRUE}, jsonOk : {TRUE}, body : ChatResponses]

\* a promise: pending, resolved with a body, or rejected with an error
Rejected(error) == [status |-> "rejected", body |-> NullBody, error |-> error]
Resolved(body) == [status |-> "resolved", body |-> body, error |-> ""]
Pending == [status |-> "pending", body |-> NullBody, error |-> ""]

FetchFailed == "TypeError: Failed to fetch"
HttpError == "Error: HTTP error! status"
JsonError == "SyntaxError: Unexpected token"

\* chatAPI.sendMessage: the promise it returns, for one outcome of fetch
sendMessage(o) ==
    IF ~o.reached THEN Rejected(FetchFailed)
    ELSE IF ~o.ok THEN Rejected(HttpError)
    ELSE IF ~o.jsonOk THEN Rejected(JsonError)
    ELSE Resolved(o.body)

\* chatAPI.healthCheck: fetch, then response.json(), with no status check
healthCheck(o) ==
    IF ~o.reached THEN Rejected(FetchFailed)
    ELSE IF ~o.jsonOk THEN Rejected(JsonError)
    ELSE Resolved(o.body)

\* faulty variant: session_id: sessionId, without the `|| undefined`
ChatRequestAlwaysSendsId(content, sid) ==
    [message |-> content, session_id |-> sid]

\* the body of the POST /chat request: JSON.stringify drops an undefined field
ChatRequest(content, sid) ==
    [message |-> content, session_id |-> OrUndefined(sid)]

\* the base URL of lib/api.ts, and the one of the deployment configuration
ApiBaseUrl == "http://localhost:8000"
ConfigBaseUrl(env) == IF Truthy(env) THEN env ELSE "http://localhost:8000"

\* the path of a request: a fixed route, then the pdf id for a download
ChatPath == [route |-> "/chat", id |-> ""]
HealthPath == [route |-> "/health", id |-> ""]
DownloadPath(pdfId) == [route |-> "/download/", id |-> pdfId]

\* `${API_BASE_URL}${path}`
Url(path) == [base |-> ApiBaseUrl, path |-> path]

\* how a fetch ended: no response, a 2xx status, or another status
HttpClass(o) ==
    IF ~o.reached THEN "unreachable"
    ELSE IF o.ok THEN "status_ok" ELSE "status_error"

\* a NetworkError: a transport failure or a non-success HTTP status
NetworkErrors == {"unreachable", "status_error"}

DownloadError == "Error: Failed to download PDF"

\* chatAPI.downloadPdf: the promise it returns, for one outcome of fetch
downloadPdf(o) ==
    IF ~o.reached THEN Rejected(FetchFailed)
    ELSE IF ~o.ok THEN Rejected(DownloadError)
    ELSE Resolved(o.body)

\* the outcomes of a fetch whose body is not read as a ChatResponse
PlainOutcomes == {o \in HttpOutcomes : o.body = NullBody}

----------------------------------------------------------------------------
\* Message Renderer: the PDF Download Section (MessageBubble.tsx 258-313)

isUser(m) == m.sender = "user"

\* faulty variant: the section is shown without looking at pdfId
ShowPdfSectionIgnoresId(m, onPdfDownload) ==
    ~isUser(m) /\ Truthy(m.pdfGenerated) /\ onPdfDownload

ShowPdfSection(m, onPdfDownload) ==
    ~isUser(m) /\ Truthy(m.pdfGenerated) /\ Truthy(m.pdfId) /\ onPdfDownload

----------------------------------------------------------------------------
\* What a render of ChatInterface commits (App.tsx 115-150)

\* faulty variant: UserInput is rendered without disabled={isLoading}
ViewOfNeverDisabled(msgs, loading, value, sid) ==
    [ disabled   |-> FALSE,
      value      |-> value,
      sessionId  |-> sid,
      isEmpty    |-> Len(msgs) = 0,
      pdfSection |-> [i \in 1..Len(msgs) |-> ShowPdfSection(msgs[i], TRUE)] ]

ViewOf(msgs, loading, value, sid) ==
    [ disabled   |-> loading,
      value      |-> value,
      sessionId  |-> sid,
      isEmpty    |-> Len(msgs) = 0,
      pdfSection |-> [i \in 1..Len(msgs) |-> ShowPdfSection(msgs[i], TRUE)] ]

ToastKinds == {"health_ok", "health_fail", "pdf_ready", "send_error",
               "dl_preparing", "dl_ok", "dl_fail"}

Toast(kind) == [toasts EXCEPT ![kind] = @ + 1]

RequestsSent == Len(SelectSeq(wire, LAMBDA e : e.dir = "request"))

----------------------------------------------------------------------------
\* Initial state: ChatInterface mounted, the health check in flight

AppInit ==
    /\ messages = <<>>
    /\ isLoading = FALSE
    /\ inputValue = EmptyText
    /\ sessionId = ""
    /\ availablePdfs = <<>>
    /\ charCount = 0
    /\ view = ViewOf(<<>>, FALSE, EmptyText, "")
    /\ inflight = <<>>
    /\ wire = <<>>
    /\ health = "pending"
    /\ toasts = [k \in ToastKinds |-> 0]
    /\ downloads = <<>>
    /\ fetched = {Url(HealthPath)}
    /\ clock = 0
    /\ ids = <<>>

ModalTexts == {"A", "B", "C"}
ModalPdfId == "p1"
NoEvent == [name |-> "none", before |-> ""]

\* PdfPreviewModal mounted with props isOpen and pdfContent: lines 25-27
ModalInitWith(open, content) ==
    /\ isOpen = open
    /\ pdfContent = content
    /\ isEditing = FALSE
    /\ editedContent = content
    /\ hasChanges = FALSE
    /\ callbacks = <<>>
    /\ lastEvent = NoEvent

\* no assistant turn rendered yet
RenderIdle ==
    /\ rContent = <<>>
    /\ rBlocks = <<>>
    /\ rCards = <<>>
    /\ rVideos = <<>>
    /\ rLines = <<>>
    /\ rDone = FALSE

NoOverride == Undef

Init ==
    /\ AppInit /\ envBaseUrl = NoOverride
    /\ ModalInitWith(FALSE, "A")
    /\ RenderIdle

----------------------------------------------------------------------------
\* Root Controller

\* faulty variant: handleSendMessage without setInputValue("")
handleSendMessageKeepsInput(content) ==
    /\ UNCHANGED <<modalVars, renderVars>>
    /\ ids' = Append(ids, clock)
    /\ UNCHANGED clock
    /\ fetched' = fetched \cup {Url(ChatPath)}
    /\ UNCHANGED <<downloads, envBaseUrl>>
    /\ RequestsSent < MaxSends
    /\ messages' = Append(messages, UserTurn(content))
    /\ isLoading' = TRUE
    /\ wire' = Append(wire, [dir |-> "request",
                             request |-> ChatRequest(content, view.sessionId),
                             result |-> Pending])
    /\ inflight' = Append(inflight, [content |-> content,
                                     closureSessionId |-> view.sessionId,
                                     result |-> Pending])
    /\ view' = ViewOf(messages', isLoading', inputValue, sessionId)
    /\ UNCHANGED <<inputValue, sessionId, availablePdfs, charCount, health, toasts>>

\* handleSendMessage up to its await: App.tsx 50-66
handleSendMessage(content) ==
    /\ UNCHANGED <<modalVars, renderVars>>
    /\ ids' = Append(ids, clock)
    /\ UNCHANGED clock
    /\ fetched' = fetched \cup {Url(ChatPath)}
    /\ UNCHANGED <<downloads, envBaseUrl>>
    /\ RequestsSent < MaxSends
    /\ messages' = Append(messages, UserTurn(content))
    /\ inputValue' = EmptyText
    /\ isLoading' = TRUE
    /\ wire' = Append(wire, [dir |-> "request",
                             request |-> ChatRequest(content, view.sessionId),
                             result |-> Pending])
    /\ inflight' = Append(inflight, [content |-> content,
                                     closureSessionId |-> view.sessionId,
                                     result |-> Pending])
    /\ view' = ViewOf(messages', isLoading', inputValue', sessionId)
    /\ UNCHANGED <<sessionId, availablePdfs, charCount, health, toasts>>

\* the event reaches the element only when the element is not disabled
InputEnabled == ~view.disabled

\* faulty variant: newValue.length < maxChars
handleInputChangeBelowMax(newValue) ==
    /\ UNCHANGED <<modalVars, renderVars, callVars, idVars>>
    /\ InputEnabled
    /\ IF Length(newValue) < maxChars
       THEN /\ inputValue' = newValue
            /\ charCount' = Length(newValue)
            /\ view' = ViewOf(messages, isLoading, inputValue', sessionId)
       ELSE UNCHANGED <<inputValue, charCount, view>>
    /\ UNCHANGED <<messages, isLoading, sessionId, availablePdfs, inflight,
                   wire, health, toasts>>

\* UserInput.handleInputChange
handleInputChange(newValue) ==
    /\ UNCHANGED <<modalVars, renderVars, callVars, idVars>>
    /\ InputEnabled
    /\ IF Length(newValue) <= maxChars
       THEN /\ inputValue' = newValue
            /\ charCount' = Length(newValue)
            /\ view' = ViewOf(messages, isLoading, inputValue', sessionId)
       ELSE UNCHANGED <<inputValue, charCount, view>>
    /\ UNCHANGED <<messages, isLoading, sessionId, availablePdfs, inflight,
                   wire, health, toasts>>

\* the guard of handleKeyPress and handleSend
CanSend == NonEmpty(Trim(view.value)) /\ ~view.disabled

\* UserInput.handleKeyPress
handleKeyPress(key, shiftKey) ==
    /\ InputEnabled
    /\ key = "Enter" /\ ~shiftKey
    /\ CanSend
    /\ handleSendMessage(Trim(view.value))

\* faulty variant: onSendMessage(value), without the trim
handleSendUntrimmed ==
    /\ ~(~NonEmpty(Trim(view.value)) \/ view.disabled)
    /\ CanSend
    /\ handleSendMessage(view.value)

\* UserInput.handleSend: the Send button is disabled when !value.trim() || disabled
handleSend ==
    /\ ~(~NonEmpty(Trim(view.value)) \/ view.disabled)
    /\ CanSend
    /\ handleSendMessage(Trim(view.value))

\* faulty variant: the prompt button submits the prompt
handlePromptSelectSends(promptText) ==
    /\ view.isEmpty
    /\ handleSendMessage(promptText)

\* handlePromptSelect, from a prompt button of EmptyState
handlePromptSelect(promptText) ==
    /\ UNCHANGED <<modalVars, renderVars, callVars, idVars>>
    /\ view.isEmpty
    /\ inputValue' = promptText
    /\ view' = ViewOf(messages, isLoading, inputValue', sessionId)
    /\ UNCHANGED <<messages, isLoading, sessionId, availablePdfs, charCount,
                   inflight, wire, health, toasts>>

\* the fetch of a pending chatAPI.sendMessage call ends and the promise settles
SendSettles(i, o) ==
    /\ UNCHANGED <<modalVars, renderVars, callVars, idVars>>
    /\ i \in 1..Len(inflight)
    /\ inflight[i].result.status = "pending"
    /\ inflight' = [inflight EXCEPT ![i].result = sendMessage(o)]
    /\ wire' = Append(wire, [dir |-> "result",
                             request |-> ChatRequest(inflight[i].content,
                                                     inflight[i].closureSessionId),
                             result |-> sendMessage(o)])
    /\ UNCHANGED <<messages, isLoading, inputValue, sessionId, availablePdfs,
                   charCount, view, health, toasts>>

Remove(s, i) == [j \in 1..(Len(s) - 1) |-> IF j < i THEN s[j] ELSE s[j + 1]]

\* faulty variant: setSessionId(response.session_id) without the if (!sessionId)
SendSucceedsAlwaysSetsId(call) ==
    LET response == call.result.body IN
    /\ sessionId' = response.session_id
    /\ messages' = Append(messages, AiTurn(response))
    /\ ids' = Append(ids, clock + 1)
    /\ IF Truthy(response.pdf_generated) /\ Truthy(response.pdf_id)
       THEN /\ availablePdfs' =
                  [p \in (DOMAIN availablePdfs) \cup {response.pdf_id}
                      |-> "TropicTrek Itinerary PDF"]
            /\ toasts' = Toast("pdf_ready")
       ELSE UNCHANGED <<availablePdfs, toasts>>

\* the try branch after the await: App.tsx 68-91
SendSucceeds(call) ==
    LET response == call.result.body IN
    /\ sessionId' = IF ~Truthy(call.closureSessionId)
                    THEN response.session_id ELSE sessionId
    /\ messages' = Append(messages, AiTurn(response))
    /\ ids' = Append(ids, clock + 1)
    /\ IF Truthy(response.pdf_generated) /\ Truthy(response.pdf_id)
       THEN /\ availablePdfs' =
                  [p \in (DOMAIN availablePdfs) \cup {response.pdf_id}
                      |-> "TropicTrek Itinerary PDF"]
            /\ toasts' = Toast("pdf_ready")
       ELSE UNCHANGED <<availablePdfs, toasts>>

\* faulty variant: the catch branch only shows the toast
SendFailsNoTurn(call) ==
    /\ toasts' = Toast("send_error")
    /\ UNCHANGED <<messages, sessionId, availablePdfs, ids>>

\* faulty variant: the catch branch puts the fallback turn in place of the last turn
SendFailsReplacesLast(call) ==
    /\ messages' = [messages EXCEPT ![Len(messages)] = ErrorTurn]
    /\ ids' = [ids EXCEPT ![Len(ids)] = clock + 1]
    /\ toasts' = Toast("send_error")
    /\ UNCHANGED <<sessionId, availablePdfs>>

\* the catch branch: App.tsx 93-105
SendFails(call) ==
    /\ messages' = Append(messages, ErrorTurn)
    /\ ids' = Append(ids, clock + 1)
    /\ toasts' = Toast("send_error")
    /\ UNCHANGED <<sessionId, availablePdfs>>

\* reading a property of the resolved value throws when the value is null
Throws(call) == call.result.status = "resolved" /\ call.result.body.isNull

\* faulty variant: setIsLoading(false) at the end of the try branch, with no finally
SendResumesNoFinally(i) ==
    /\ UNCHANGED <<modalVars, renderVars, callVars, clock>>
    /\ i \in 1..Len(inflight)
    /\ inflight[i].result.status # "pending"
    /\ IF inflight[i].result.status = "resolved" /\ ~Throws(inflight[i])
       THEN SendSucceeds(inflight[i]) /\ isLoading' = FALSE
       ELSE SendFails(inflight[i]) /\ UNCHANGED isLoading
    /\ inflight' = Remove(inflight, i)
    /\ UNCHANGED <<inputValue, charCount, view, wire, health>>

\* faulty variant: the catch branch sends the same request again
SendResumesRetries(i) ==
    /\ UNCHANGED <<modalVars, renderVars, callVars, clock>>
    /\ i \in 1..Len(inflight)
    /\ inflight[i].result.status # "pending"
    /\ IF inflight[i].result.status = "resolved" /\ ~Throws(inflight[i])
       THEN /\ SendSucceeds(inflight[i])
            /\ isLoading' = FALSE
            /\ inflight' = Remove(inflight, i)
            /\ UNCHANGED wire
       ELSE IF RequestsSent < MaxSends
       THEN /\ wire' = Append(wire, [dir |-> "request",
                                     request |-> ChatRequest(inflight[i].content,
                                                             inflight[i].closureSessionId),
                                     result |-> Pending])
            /\ inflight' = [inflight EXCEPT ![i].result = Pending]
            /\ UNCHANGED <<messages, sessionId, availablePdfs, toasts, isLoading, ids>>
       ELSE /\ SendFails(inflight[i])
            /\ isLoading' = FALSE
            /\ inflight' = Remove(inflight, i)
            /\ UNCHANGED wire
    /\ UNCHANGED <<inputValue, charCount, view, health>>

\* handleSendMessage from its await on: try / catch / finally, App.tsx 62-108
SendResumes(i) ==
    /\ UNCHANGED <<modalVars, renderVars, callVars, clock>>
    /\ i \in 1..Len(inflight)
    /\ inflight[i].result.status # "pending"
    /\ IF inflight[i].result.status = "resolved" /\ ~Throws(inflight[i])
       THEN SendSucceeds(inflight[i])
       ELSE SendFails(inflight[i])
    /\ isLoading' = FALSE
    /\ inflight' = Remove(inflight, i)
    /\ UNCHANGED <<inputValue, charCount, view, wire, health>>

\* React commits the state set outside an event handler
Render ==
    /\ UNCHANGED <<modalVars, renderVars, callVars, idVars>>
    /\ view # ViewOf(messages, isLoading, inputValue, sessionId)
    /\ view' = ViewOf(messages, isLoading, inputValue, sessionId)
    /\ UNCHANGED <<messages, isLoading, inputValue, sessionId, availablePdfs,
                   charCount, inflight, wire, health, toasts>>

\* faulty variant: a failed health check puts the interface in the loading state
checkBackendHealthBlocks(o) ==
    /\ UNCHANGED <<modalVars, renderVars, callVars, idVars>>
    /\ health = "pending"
    /\ health' = HttpClass(o)
    /\ toasts' = IF healthCheck(o).status = "resolved"
                 THEN Toast("health_ok") ELSE Toast("health_fail")
    /\ isLoading' = IF healthCheck(o).status = "resolved" THEN isLoading ELSE TRUE
    /\ view' = ViewOf(messages, isLoading', inputValue, sessionId)
    /\ UNCHANGED <<messages, inputValue, sessionId, availablePdfs,
                   charCount, inflight, wire>>

\* checkBackendHealth: App.tsx 18-29
checkBackendHealth(o) ==
    /\ UNCHANGED <<modalVars, renderVars, callVars, idVars>>
    /\ health = "pending"
    /\ health' = HttpClass(o)
    /\ toasts' = IF healthCheck(o).status = "resolved"
                 THEN Toast("health_ok") ELSE Toast("health_fail")
    /\ UNCHANGED <<messages, isLoading, inputValue, sessionId, availablePdfs,
                   charCount, view, inflight, wire>>

Next ==
    \/ \E t \in TypedTexts : handleInputChange(t)
    \/ \E k \in {"Enter", "a"}, s \in BOOLEAN : handleKeyPress(k, s)
    \/ handleSend
    \/ \E p \in PromptTexts : handlePromptSelect(p)
    \/ \E i \in 1..MaxSends, o \in HttpOutcomes : SendSettles(i, o)
    \/ \E i \in 1..MaxSends : SendResumes(i)
    \/ Render
    \/ \E o \in PlainOutcomes : checkBackendHealth(o)

Spec == Init /\ [][Next]_vars

----------------------------------------------------------------------------
\* PDF download (App.tsx 31-48)

\* handlePdfDownload up to its await, from the Download button of turn i
handlePdfDownload(i) ==
    /\ UNCHANGED <<modalVars, renderVars, idVars>>
    /\ i \in DOMAIN view.pdfSection
    /\ view.pdfSection[i]
    /\ Len(downloads) < MaxDownloads
    /\ toasts' = Toast("dl_preparing")
    /\ downloads' = Append(downloads, [pdfId |-> messages[i].pdfId,
                                       status |-> "pending",
                                       http |-> "pending"])
    /\ fetched' = fetched \cup {Url(DownloadPath(messages[i].pdfId))}
    /\ UNCHANGED <<messages, isLoading, inputValue, sessionId, availablePdfs,
                   charCount, view, inflight, wire, health, envBaseUrl>>

\* faulty variant: the success notification is shown whatever the fetch did
DownloadResumesAlwaysOk(k, o) ==
    /\ UNCHANGED <<modalVars, renderVars, idVars>>
    /\ k \in 1..Len(downloads)
    /\ downloads[k].status = "pending"
    /\ downloads' = [downloads EXCEPT
                        ![k].status = IF downloadPdf(o).status = "resolved"
                                      THEN "saved" ELSE "failed",
                        ![k].http = HttpClass(o)]
    /\ toasts' = Toast("dl_ok")
    /\ UNCHANGED <<messages, isLoading, inputValue, sessionId, availablePdfs,
                   charCount, view, inflight, wire, health, fetched, envBaseUrl>>

\* handlePdfDownload from its await on: the browser save, or the catch branch
DownloadResumes(k, o) ==
    /\ UNCHANGED <<modalVars, renderVars, idVars>>
    /\ k \in 1..Len(downloads)
    /\ downloads[k].status = "pending"
    /\ IF downloadPdf(o).status = "resolved"
       THEN /\ downloads' = [downloads EXCEPT ![k].status = "saved",
                                              ![k].http = HttpClass(o)]
            /\ toasts' = Toast("dl_ok")
       ELSE /\ downloads' = [downloads EXCEPT ![k].status = "failed",
                                              ![k].http = HttpClass(o)]
            /\ toasts' = Toast("dl_fail")
    /\ UNCHANGED <<messages, isLoading, inputValue, sessionId, availablePdfs,
                   charCount, view, inflight, wire, health, fetched, envBaseUrl>>

----------------------------------------------------------------------------
\* Message Renderer: the image scan of MessageBubble (an assistant turn)

\* a text is a sequence of tokens: the image host prefix, an ordinary
\* character, a space, a closing parenthesis, a line break
ImagePrefix == "https://images.unsplash.com/"
Tokens == {ImagePrefix, "x", " ", ")", "\n"}

\* [^\s)] : what the tail of an image URL may not contain
UrlTail(tok) == tok \notin {" ", "\n", ")"}

Contents == UNION {[1..n -> Tokens] : n \in 0..MaxContentLen}

\* the last position of the greedy [^\s)]+ that starts at position i
RECURSIVE TailEnd(_, _)
TailEnd(content, i) ==
    IF i + 1 <= Len(content) /\ UrlTail(content[i + 1])
    THEN TailEnd(content, i + 1)
    ELSE i

\* positions from lastIndex on where imageRegex matches
MatchesFrom(content, lastIndex) ==
    {i \in lastIndex..Len(content) :
        /\ content[i] = ImagePrefix
        /\ i + 1 <= Len(content)
        /\ UrlTail(content[i + 1])}

\* faulty variant: a single exec, as of a regex without the g flag
RECURSIVE execLoopOnce(_, _)
execLoopOnce(content, lastIndex) ==
    LET found == MatchesFrom(content, lastIndex) IN
    IF found = {} THEN <<>>
    ELSE LET i == CHOOSE k \in found : \A l \in found : k <= l
             e == TailEnd(content, i + 1)
         IN <<SubSeq(content, i, e)>>

\* while ((match = imageRegex.exec(content)) !== null) imageUrls.push(match[0])
RECURSIVE execLoop(_, _)
execLoop(content, lastIndex) ==
    LET found == MatchesFrom(content, lastIndex) IN
    IF found = {} THEN <<>>
    ELSE LET i == CHOOSE k \in found : \A l \in found : k <= l
             e == TailEnd(content, i + 1)
         IN <<SubSeq(content, i, e)>> \o execLoop(content, e + 1)

imageUrls(content) == execLoop(content, 1)

\* imageUrls.map: one img element per URL, inside the "images" container
ImageBlocks(content) ==
    [k \in 1..Len(imageUrls(content)) |->
        [key |-> k - 1, src |-> imageUrls(content)[k], alt |-> k]]

\* ---- the PDF link scan, the video embed scan and the text lines

\* further tokens: the PDF link prefix and the ".pdf" ending, the video embed
\* prefix, a video information marker (any of https://www.youtube.com/watch,
\* https://i.ytimg.com/, Channel:, Description:, Watch:, Embed:, Thumbnail:),
\* the opening "![alt](" of a markdown image, the bold mark and a numbering
PdfPrefix == "http://localhost:8000/download-pdf/"
PdfSuffix == ".pdf"
EmbedPrefix == "https://www.youtube.com/embed/"
VideoInfo == "Channel:"
MdImageOpen == "![alt]("
BoldMark == "**"
Numbering == "1."

LineTokens == Tokens \cup {PdfPrefix, PdfSuffix, EmbedPrefix, VideoInfo,
                           MdImageOpen, BoldMark, Numbering}

LineContents == UNION {[1..n -> LineTokens] : n \in 0..MaxLineLen}

\* \s
White(tok) == tok \in {" ", "\n"}

\* the last position of the greedy [^\s]+ that starts at position i
RECURSIVE RunEnd(_, _)
RunEnd(content, i) ==
    IF i + 1 <= Len(content) /\ ~White(content[i + 1])
    THEN RunEnd(content, i + 1)
    ELSE i

\* where the match of pdfRegex that starts at position i ends (0: no match):
\* the greedy [^\s]+ gives back characters up to the last ".pdf" it covers
PdfMatchEnd(content, i) ==
    IF content[i] # PdfPrefix \/ i + 1 > Len(content) \/ White(content[i + 1])
    THEN 0
    ELSE LET ends == {e \in (i + 2)..RunEnd(content, i + 1) : content[e] = PdfSuffix}
         IN IF ends = {} THEN 0
            ELSE CHOOSE e \in ends : \A f \in ends : f <= e

\* while ((pdfMatch = pdfRegex.exec(content)) !== null) pdfUrls.push(pdfMatch[0])
RECURSIVE pdfLoop(_, _)
pdfLoop(content, lastIndex) ==
    LET found == {i \in lastIndex..Len(content) : PdfMatchEnd(content, i) # 0} IN
    IF found = {} THEN <<>>
    ELSE LET i == CHOOSE k \in found : \A l \in found : k <= l
             e == PdfMatchEnd(content, i)
         IN <<SubSeq(content, i, e)>> \o pdfLoop(content, e + 1)

pdfUrls(content) == pdfLoop(content, 1)

\* while ((videoMatch = videoEmbedRegex.exec(content)) !== null) ...
RECURSIVE videoLoop(_, _)
videoLoop(content, lastIndex) ==
    LET found == {i \in lastIndex..Len(content) :
                     /\ content[i] = EmbedPrefix
                     /\ i + 1 <= Len(content)
                     /\ ~White(content[i + 1])} IN
    IF found = {} THEN <<>>
    ELSE LET i == CHOOSE k \in found : \A l \in found : k <= l
             e == RunEnd(content, i + 1)
         IN <<SubSeq(content, i, e)>> \o videoLoop(content, e + 1)

videoEmbedUrls(content) == videoLoop(content, 1)

\* pdfUrls.map: one card per URL, its link pointing to the URL
PdfCards(content) ==
    [k \in 1..Len(pdfUrls(content)) |-> [key |-> k - 1, href |-> pdfUrls(content)[k]]]

\* videoEmbedUrls.map: one iframe per URL
VideoBlocks(content) ==
    [k \in 1..Len(videoEmbedUrls(content)) |->
        [key |-> k - 1, src |-> videoEmbedUrls(content)[k]]]

\* message.content.split('\n')
RECURSIVE Split(_)
Split(content) ==
    LET breaks == {k \in 1..Len(content) : content[k] = "\n"} IN
    IF breaks = {} THEN <<content>>
    ELSE LET k == CHOOSE b \in breaks : \A c \in breaks : b <= c
         IN <<SubSeq(content, 1, k - 1)>> \o Split(SubSeq(content, k + 1, Len(content)))

\* line.includes(tok)
Includes(line, tok) == \E i \in 1..Len(line) : line[i] = tok

\* line.match(/!\[([^\]]*)\]\(([^)]+)\)/)
MatchesMdImage(line) ==
    \E i, k \in 1..Len(line) :
        /\ line[i] = MdImageOpen
        /\ k >= i + 2
        /\ line[k] = ")"
        /\ \A m \in (i + 1)..(k - 1) : line[m] # ")"

\* line.match(/\*\*\d+\.\s*[^*]+\*\*/)
MatchesBoldHeading(line) ==
    \E j, k \in 1..Len(line) :
        /\ line[j] = BoldMark
        /\ j + 1 <= Len(line) /\ line[j + 1] = Numbering
        /\ k >= j + 3
        /\ line[k] = BoldMark
        /\ \A m \in (j + 2)..(k - 1) : line[m] # BoldMark

\* line.trim().startsWith('**') && line.includes('**')
StartsBold(line) ==
    LET inked == {i \in 1..Len(line) : line[i] # " "} IN
    /\ inked # {}
    /\ line[CHOOSE i \in inked : \A j \in inked : i <= j] = BoldMark
    /\ Includes(line, BoldMark)

\* faulty variant: the filter does not test for the video embed URL
SkipLineNoEmbed(line) ==
    \/ Includes(line, ImagePrefix)
    \/ Includes(line, PdfPrefix)
    \/ Includes(line, VideoInfo)
    \/ MatchesMdImage(line)
    \/ MatchesBoldHeading(line)
    \/ StartsBold(line)

\* the filter of the text lines: lines 206-218
SkipLine(line) ==
    \/ Includes(line, ImagePrefix)
    \/ Includes(line, PdfPrefix)
    \/ Includes(line, VideoInfo)
    \/ Includes(line, EmbedPrefix)
    \/ MatchesMdImage(line)
    \/ MatchesBoldHeading(line)
    \/ StartsBold(line)

\* what is set as the HTML of a line: processLine(line), which leaves a line
\* without emphasized word as it is, or the non-breaking space for an empty line
Nbsp == "\\u00A0"
LineHtml(line) == IF line # <<>> THEN line ELSE <<Nbsp>>

\* the forEach over the lines: one element, keyed by the line index, per line
\* that the filter does not skip
TextLines(content) ==
    LET lines == Split(content)
        all == [i \in 1..Len(lines) |->
                   [index |-> i - 1, skip |-> SkipLine(lines[i]),
                    html |-> LineHtml(lines[i])]]
        kept == SelectSeq(all, LAMBDA l : ~l.skip)
    IN [k \in 1..Len(kept) |-> [index |-> kept[k].index, html |-> kept[k].html]]

\* the IIFE of MessageBubble renders the content of an assistant turn
MessageBubble ==
    /\ ~rDone
    /\ rBlocks' = ImageBlocks(rContent)
    /\ rCards' = PdfCards(rContent)
    /\ rVideos' = VideoBlocks(rContent)
    /\ rLines' = TextLines(rContent)
    /\ rDone' = TRUE
    /\ UNCHANGED <<rContent, appVars, modalVars>>

RenderInit ==
    /\ AppInit /\ envBaseUrl = NoOverride
    /\ ModalInitWith(FALSE, "A")
    /\ rContent \in Contents \cup LineContents
    /\ rBlocks = <<>>
    /\ rCards = <<>>
    /\ rVideos = <<>>
    /\ rLines = <<>>
    /\ rDone = FALSE

RenderNext == MessageBubble

RenderSpec == RenderInit /\ [][RenderNext]_vars

----------------------------------------------------------------------------
\* the inputs explored with the three backend calls together
CallsTexts == { Txt(1, "x", maxChars - 2, 1) }
CallsPrompts == { Txt(0, "I want to go on a 3 day retreat to visit Fort Charlotte.", 56, 0) }
CallsOutcomes ==
    {o \in HttpOutcomes :
        \/ o.body = NullBody /\ (~o.reached \/ (~o.ok /\ o.jsonOk))
        \/ ~o.body.isNull /\ o.body.session_id = "s1"
             /\ o.body.pdf_id \in {Undef, "p1"}
             /\ (o.body.pdf_generated = JsTrue <=> o.body.pdf_id = "p1")}
BaseUrlOverride == "https://api.tropitrek.example"

CallsInit ==
    /\ AppInit /\ envBaseUrl \in {NoOverride, "", BaseUrlOverride}
    /\ ModalInitWith(FALSE, "A")
    /\ RenderIdle

CallsNext ==
    \/ \E t \in CallsTexts : handleInputChange(t)
    \/ handleKeyPress("Enter", FALSE)
    \/ handleSend
    \/ \E p \in CallsPrompts : handlePromptSelect(p)
    \/ \E i \in 1..MaxSends, o \in CallsOutcomes : SendSettles(i, o)
    \/ \E i \in 1..MaxSends : SendResumes(i)
    \/ Render
    \/ \E o \in PlainOutcomes : checkBackendHealth(o)
    \/ \E i \in 1..(2 * MaxSends) : handlePdfDownload(i)
    \/ \E k \in 1..MaxDownloads, o \in PlainOutcomes : DownloadResumes(k, o)

CallsSpec == CallsInit /\ [][CallsNext]_vars

----------------------------------------------------------------------------
\* The controller with a clock that advances between its steps

\* Date.now() returns a later value
Tick ==
    /\ clock < MaxClock
    /\ clock' = clock + 1
    /\ UNCHANGED <<messages, isLoading, inputValue, sessionId, availablePdfs,
                   charCount, view, inflight, wire, health, toasts, callVars,
                   ids, modalVars, renderVars>>

ClockOutcomes ==
    {o \in HttpOutcomes :
        \/ o.body = NullBody /\ ~o.reached
        \/ ~o.body.isNull /\ o.body.session_id = "s1" /\ o.body.pdf_id = Undef
             /\ o.body.pdf_generated = JsFalse}

ClockNext ==
    \/ \E t \in CallsTexts : handleInputChange(t)
    \/ handleKeyPress("Enter", FALSE)
    \/ handleSend
    \/ \E i \in 1..MaxSends, o \in ClockOutcomes : SendSettles(i, o)
    \/ \E i \in 1..MaxSends : SendResumes(i)
    \/ Render
    \/ Tick

ClockSpec == Init /\ [][ClockNext]_vars

----------------------------------------------------------------------------
\* PDF Preview Modal (PdfPreviewModal.tsx)

Event(name) == [name |-> name, before |-> editedContent]

Callback(fn, text) == [fn |-> fn, pdfId |-> ModalPdfId, text |-> text]

\* the modal renders its buttons only when isOpen: line 29
Shown == isOpen

\* faulty variant: the Edit button is rendered in both states
ClickEditAlways ==
    /\ UNCHANGED <<appVars, renderVars>>
    /\ Shown
    /\ isEditing' = TRUE
    /\ lastEvent' = Event("edit")
    /\ UNCHANGED <<isOpen, pdfContent, editedContent, hasChanges, callbacks>>

\* the Edit button, offered when !isEditing: lines 125-133
ClickEdit ==
    /\ UNCHANGED <<appVars, renderVars>>
    /\ Shown /\ ~isEditing
    /\ isEditing' = TRUE
    /\ lastEvent' = Event("edit")
    /\ UNCHANGED <<isOpen, pdfContent, editedContent, hasChanges, callbacks>>

\* the Download button, offered when !isEditing: lines 134-140
ClickDownload ==
    /\ UNCHANGED <<appVars, renderVars>>
    /\ Shown /\ ~isEditing
    /\ Len(callbacks) < MaxCallbacks
    /\ callbacks' = Append(callbacks, Callback("onDownload", ""))
    /\ lastEvent' = Event("download")
    /\ UNCHANGED <<isOpen, pdfContent, isEditing, editedContent, hasChanges>>

\* handleContentChange: the textarea is rendered when isEditing
handleContentChange(value) ==
    /\ UNCHANGED <<appVars, renderVars>>
    /\ Shown /\ isEditing
    /\ value # editedContent
    /\ editedContent' = value
    /\ hasChanges' = (value # pdfContent)
    /\ lastEvent' = Event("type")
    /\ UNCHANGED <<isOpen, pdfContent, isEditing, callbacks>>

\* the Save Changes button is disabled when !hasChanges: line 152
SaveEnabled == hasChanges

\* faulty variant: onSaveEdits is given the pdfContent prop
handleSaveEditsSendsOriginal ==
    /\ UNCHANGED <<appVars, renderVars>>
    /\ Shown /\ isEditing /\ SaveEnabled
    /\ Len(callbacks) < MaxCallbacks
    /\ callbacks' = Append(callbacks, Callback("onSaveEdits", pdfContent))
    /\ hasChanges' = FALSE
    /\ isEditing' = FALSE
    /\ lastEvent' = Event("save")
    /\ UNCHANGED <<isOpen, pdfContent, editedContent>>

\* handleSaveEdits
handleSaveEdits ==
    /\ UNCHANGED <<appVars, renderVars>>
    /\ Shown /\ isEditing /\ SaveEnabled
    /\ Len(callbacks) < MaxCallbacks
    /\ callbacks' = Append(callbacks, Callback("onSaveEdits", editedContent))
    /\ hasChanges' = FALSE
    /\ isEditing' = FALSE
    /\ lastEvent' = Event("save")
    /\ UNCHANGED <<isOpen, pdfContent, editedContent>>

\* faulty variant: handleCancelEdit without setEditedContent(pdfContent)
handleCancelEditKeepsText ==
    /\ UNCHANGED <<appVars, renderVars>>
    /\ Shown /\ isEditing
    /\ hasChanges' = FALSE
    /\ isEditing' = FALSE
    /\ lastEvent' = Event("cancel")
    /\ UNCHANGED <<isOpen, pdfContent, editedContent, callbacks>>

\* handleCancelEdit
handleCancelEdit ==
    /\ UNCHANGED <<appVars, renderVars>>
    /\ Shown /\ isEditing
    /\ editedContent' = pdfContent
    /\ hasChanges' = FALSE
    /\ isEditing' = FALSE
    /\ lastEvent' = Event("cancel")
    /\ UNCHANGED <<isOpen, pdfContent, callbacks>>

\* the close button calls onClose, and the owner clears isOpen: lines 165-170
ClickClose ==
    /\ UNCHANGED <<appVars, renderVars>>
    /\ Shown
    /\ Len(callbacks) < MaxCallbacks
    /\ callbacks' = Append(callbacks, Callback("onClose", ""))
    /\ isOpen' = FALSE
    /\ lastEvent' = Event("close")
    /\ UNCHANGED <<pdfContent, isEditing, editedContent, hasChanges>>

\* the owner sets isOpen; the component stays mounted and keeps its state
Open ==
    /\ UNCHANGED <<appVars, renderVars>>
    /\ ~isOpen
    /\ isOpen' = TRUE
    /\ lastEvent' = Event("open")
    /\ UNCHANGED <<pdfContent, isEditing, editedContent, hasChanges, callbacks>>

ModalInit ==
    /\ AppInit /\ envBaseUrl = NoOverride
    /\ RenderIdle
    /\ \E open \in BOOLEAN, content \in ModalTexts : ModalInitWith(open, content)

ModalNext ==
    \/ ClickEdit
    \/ ClickDownload
    \/ \E v \in ModalTexts : handleContentChange(v)
    \/ handleSaveEdits
    \/ handleCancelEdit
    \/ ClickClose
    \/ Open

ModalSpec == ModalInit /\ [][ModalNext]_vars

----------------------------------------------------------------------------
\* Properties of the Root Controller, checked under Spec

\* C1: at most one send is in flight: the number of pending chatAPI.sendMessage
\* calls is 0 or 1, and while one is pending (isLoading) the Input Box is
\* disabled, so neither Enter nor the Send button starts handleSendMessage.
C1_AtMostOneSendInFlight ==
    /\ Len(inflight) <= 1
    /\ (Len(inflight) = 1) <=> isLoading
    /\ isLoading => (~InputEnabled /\ ~CanSend)

C1_Witness ==
    /\ Len(inflight) = 1 /\ isLoading /\ view.disabled
    /\ Len(messages) = 3
    /\ RequestsSent = 2

\* C2: loading is cleared in all cases: the step in which a pending send is
\* resumed, resolved or rejected, leaves isLoading false, and isLoading turns
\* true only in a step that submits (sends one more request).
C2_LoadingCleared ==
    [][ /\ (Len(inflight') < Len(inflight)) => (isLoading' = FALSE)
        /\ (~isLoading /\ isLoading') => (RequestsSent' = RequestsSent + 1) ]_vars

C2_Witness ==
    /\ Len(messages) = 4
    /\ messages[2] = ErrorTurn
    /\ messages[4].sender = "ai" /\ messages[4] # ErrorTurn
    /\ inflight = <<>>
    /\ ~isLoading

\* C3: when the send call rejects, the handler appends exactly one turn, the
\* assistant turn with the fixed fallback text, and keeps all earlier turns;
\* the rejection itself appends nothing.
C3_RejectAppendsFallback ==
    [][ \A i \in 1..Len(inflight) :
          /\ (inflight[i].result.status = "rejected" /\ inflight' = Remove(inflight, i))
                => (messages' = Append(messages, ErrorTurn))
          /\ (inflight[i].result.status = "pending" /\ Len(inflight') = Len(inflight))
                => (messages' = messages) ]_vars

C3_Witness ==
    /\ Len(wire) = 2
    /\ wire[2].dir = "result" /\ wire[2].result.error = HttpError
    /\ inflight = <<>>
    /\ messages = <<UserTurn(wire[1].request.message), ErrorTurn>>

UserTurnsIn(n) == Cardinality({i \in 1..n : messages[i].sender = "user"})
AiTurnsIn(n) == Cardinality({i \in 1..n : messages[i].sender = "ai"})

\* C4: the user turn of a submission is in the list before its assistant turn
\* (every prefix of the list holds at least as many user turns as assistant
\* turns), and the step that submits appends the user turn and leaves the input
\* box empty while the call is still pending.
C4_UserTurnFirstInputCleared ==
    /\ [](\A n \in 1..Len(messages) : AiTurnsIn(n) <= UserTurnsIn(n))
    /\ [][ (RequestsSent' = RequestsSent + 1) =>
             /\ messages' = Append(messages, UserTurn(wire'[Len(wire')].request.message))
             /\ inputValue' = EmptyText
             /\ view'.value = EmptyText
             /\ inflight'[Len(inflight')].result.status = "pending" ]_vars

C4_Witness ==
    /\ Len(messages) = 3
    /\ messages[1].sender = "user" /\ messages[2].sender = "ai"
    /\ messages[3].sender = "user"
    /\ inputValue = EmptyText /\ view.value = EmptyText
    /\ Len(inflight) = 1 /\ inflight[1].result.status = "pending"

\* the session id delivered by the first reply, before position j of the wire
\* log, that carried one ("" when there is none)
Delivers(e) ==
    /\ e.dir = "result"
    /\ e.result.status = "resolved"
    /\ ~e.result.body.isNull
    /\ e.result.body.session_id # ""

FirstDelivered(j) ==
    LET earlier == {k \in 1..(j - 1) : Delivers(wire[k])} IN
    IF earlier = {} THEN ""
    ELSE wire[CHOOSE k \in earlier : \A l \in earlier : k <= l].result.body.session_id

\* C5: session continuity: each submission sends exactly one request; a request
\* sent before any reply delivered a session id omits session_id, and every
\* request sent after one was delivered carries that id.
C5_SessionContinuity ==
    /\ RequestsSent = UserTurnsIn(Len(messages))
    /\ \A j \in 1..Len(wire) :
          wire[j].dir = "request" =>
             wire[j].request.session_id =
                 (IF FirstDelivered(j) = "" THEN Undef ELSE FirstDelivered(j))

C5_Witness ==
    /\ Len(wire) = 3
    /\ wire[1].dir = "request" /\ wire[1].request.session_id = Undef
    /\ Delivers(wire[2]) /\ wire[2].result.body.session_id = "s2"
    /\ wire[3].dir = "request" /\ wire[3].request.session_id = "s2"

\* C6: every assistant turn of the list with pdfGenerated = true carries a
\* non-empty pdfId, whatever the backend replied.
C6_PdfTurnsCarryId ==
    \A i \in 1..Len(messages) :
        (messages[i].sender = "ai" /\ messages[i].pdfGenerated = JsTrue)
            => messages[i].pdfId \notin {Undef, ""}

\* C7: for every rendered turn, the Preview and Download buttons are shown if
\* and only if the turn is an assistant turn with pdfGenerated true and a
\* non-empty pdfId.
C7_AffordancesIffBoth ==
    \A i \in DOMAIN view.pdfSection :
        view.pdfSection[i] <=>
            /\ messages[i].sender = "ai"
            /\ messages[i].pdfGenerated = JsTrue
            /\ messages[i].pdfId \notin {Undef, ""}

C7_Witness ==
    /\ Len(view.pdfSection) = 4
    /\ ~view.pdfSection[1]
    /\ messages[2].pdfGenerated = JsTrue /\ messages[2].pdfId = Undef
    /\ ~view.pdfSection[2]
    /\ view.pdfSection[4]

----------------------------------------------------------------------------
\* Properties of the PDF Preview Modal, checked under ModalSpec

\* C8: pressing Save in Editing invokes onSaveEdits exactly once, with the
\* modal's pdfId and the text in the editor, and moves the modal to Viewing.
C8_SaveCallsBackWithEditedText ==
    [][ handleSaveEdits =>
          /\ isEditing
          /\ callbacks' = Append(callbacks, [fn |-> "onSaveEdits",
                                             pdfId |-> ModalPdfId,
                                             text |-> editedContent])
          /\ ~isEditing' ]_vars

C8_Witness ==
    /\ lastEvent.name = "save"
    /\ lastEvent.before # pdfContent
    /\ Len(callbacks) >= 1
    /\ callbacks[Len(callbacks)] =
          [fn |-> "onSaveEdits", pdfId |-> ModalPdfId, text |-> lastEvent.before]
    /\ ~isEditing

\* C9: pressing Cancel in Editing invokes no callback, moves the modal to
\* Viewing and sets the modal's text to the pdfContent it was given, whatever
\* was typed since entering Editing.
C9_CancelReverts ==
    [][ handleCancelEdit =>
          /\ isEditing
          /\ callbacks' = callbacks
          /\ ~isEditing'
          /\ editedContent' = pdfContent ]_vars

C9_Witness ==
    /\ lastEvent.name = "cancel"
    /\ lastEvent.before # pdfContent
    /\ editedContent = pdfContent
    /\ ~isEditing

\* the text saved last, or the original content when nothing was saved
SavedTexts == SelectSeq(callbacks, LAMBDA c : c.fn = "onSaveEdits")
LastSaved ==
    IF SavedTexts = <<>> THEN pdfContent ELSE SavedTexts[Len(SavedTexts)].text

\* C10: in Editing, Save is enabled if and only if the text in the editor
\* differs from the last-saved text.
C10_SaveEnabledIffDiffers ==
    (Shown /\ isEditing) => (SaveEnabled <=> (editedContent # LastSaved))

\* C11: closing is possible from Viewing and from Editing and discards the
\* uncommitted edits: when the modal is opened again it is in Viewing and shows
\* the last committed text.
C11_CloseDiscardsEdits ==
    /\ (Shown /\ Len(callbacks) < MaxCallbacks) => ENABLED ClickClose
    /\ (lastEvent.name = "open") => (~isEditing /\ editedContent = LastSaved)

----------------------------------------------------------------------------
\* More properties of the Root Controller

\* C12: input bound: whenever the textarea takes input, a change to a text of
\* at most maxChars characters is accepted and becomes the input value (and the
\* count its length); a change to a text one character longer changes neither
\* the value nor the count and submits nothing.
C12_InputBound ==
    InputEnabled =>
        \A t \in TypedTexts :
            IF Length(t) <= maxChars
            THEN ENABLED (handleInputChange(t) /\ inputValue' = t
                                               /\ charCount' = Length(t))
            ELSE ~ENABLED (handleInputChange(t)
                             /\ <<inputValue, charCount, messages, wire, inflight>>'
                                  # <<inputValue, charCount, messages, wire, inflight>>)

C12_Witness ==
    /\ Length(inputValue) = maxChars
    /\ charCount = maxChars
    /\ view.value = inputValue
    /\ \E t \in TypedTexts : Length(t) = maxChars + 1

----------------------------------------------------------------------------
\* Properties of the backend calls

\* a settled send call that ended in a NetworkError
SendNetworkError(r) ==
    r.status = "rejected" /\ r.error \in {FetchFailed, HttpError}

DownloadsWith(status) ==
    Cardinality({k \in 1..Len(downloads) : downloads[k].status = status})

\* every send that ended in a NetworkError and whose handler has resumed has
\* shown the error notification
C13_SendPart ==
    Cardinality({j \in 1..Len(wire) :
                    wire[j].dir = "result" /\ SendNetworkError(wire[j].result)})
      - Cardinality({i \in 1..Len(inflight) : SendNetworkError(inflight[i].result)})
        <= toasts["send_error"]

\* every download that ended in a NetworkError has shown the failure
\* notification and no success notification
C13_DownloadPart ==
    /\ \A k \in 1..Len(downloads) :
          downloads[k].http \in NetworkErrors => downloads[k].status = "failed"
    /\ toasts["dl_fail"] = DownloadsWith("failed")
    /\ toasts["dl_ok"] = DownloadsWith("saved")

\* a health check that ended in a NetworkError has shown the warning and no
\* success notification
C13_HealthPart ==
    health \in NetworkErrors =>
        (toasts["health_fail"] = 1 /\ toasts["health_ok"] = 0)

\* C13: every backend call (send, PDF download, health check) that ends in a
\* NetworkError, a non-success HTTP status or a transport failure, produces an
\* error or warning notification, and none is reported as a success.
C13_NetworkErrorsNotified ==
    /\ C13_SendPart
    /\ C13_DownloadPart
    /\ C13_HealthPart

\* the input box is disabled only by a send whose handler has not finished, or
\* by a render that is about to be replaced
DisabledOnlyBySend == view.disabled => (inflight # <<>> \/ ENABLED Render)

\* C14: the startup health check never blocks input and is never fatal:
\* whatever the state of the health check (pending, failed or succeeded) the
\* input box is disabled only while a send is in progress, a text in the box
\* can be submitted and every submitted send can settle and finish; the step
\* that ends the health check changes none of messages, isLoading, sessionId
\* and the input value.
C14_HealthNeverBlocks ==
    /\ [](/\ DisabledOnlyBySend
          /\ (InputEnabled /\ NonEmpty(Trim(view.value)) /\ RequestsSent < MaxSends)
                => ENABLED handleSend
          /\ \A i \in 1..Len(inflight) :
                IF inflight[i].result.status = "pending"
                THEN \A o \in HttpOutcomes : ENABLED SendSettles(i, o)
                ELSE ENABLED SendResumes(i))
    /\ [][ (health' # health) =>
             UNCHANGED <<messages, isLoading, sessionId, inputValue, view>> ]_vars

C14_Witness ==
    /\ health = "pending"
    /\ Len(messages) = 2
    /\ messages[1].sender = "user" /\ messages[2].sender = "ai"
    /\ messages[2] # ErrorTurn
    /\ inflight = <<>>
    /\ InputEnabled

\* C16: selecting a prompt from the empty-conversation gallery sets the input
\* box value to the prompt text and sends nothing: while the gallery is shown
\* isLoading is false and no request has been issued, every prompt can be
\* selected, and the selecting step appends no turn, issues no request and
\* leaves isLoading false.
C16_PromptSelectOnlyFillsInput ==
    /\ [](view.isEmpty =>
            /\ ~isLoading /\ wire = <<>> /\ inflight = <<>>
            /\ \A p \in PromptTexts :
                  ENABLED (handlePromptSelect(p) /\ inputValue' = p /\ view'.value = p))
    /\ [][ \A p \in PromptTexts :
             handlePromptSelect(p) =>
                /\ inputValue' = p
                /\ UNCHANGED <<messages, wire, inflight, isLoading, fetched>>
                /\ ~isLoading' ]_vars

C16_Witness ==
    /\ inputValue \in PromptTexts
    /\ view.value = inputValue
    /\ view.isEmpty
    /\ messages = <<>> /\ wire = <<>> /\ ~isLoading

RequestsOnWire == SelectSeq(wire, LAMBDA e : e.dir = "request")
UserTurns == SelectSeq(messages, isUser)

\* C18: no retries: the requests sent are, one for one and in order, the texts
\* the user submitted; a request is issued only by a step in which the user
\* submits the text of the input box; the step in which a send finishes,
\* failed or not, issues no request and puts nothing back in the input box.
C18_NoRetries ==
    /\ [](/\ Len(RequestsOnWire) = Len(UserTurns)
          /\ \A j \in 1..Len(RequestsOnWire) :
                RequestsOnWire[j].request.message = UserTurns[j].content)
    /\ [][ (RequestsSent' # RequestsSent) =>
             /\ RequestsSent' = RequestsSent + 1
             /\ CanSend
             /\ wire'[Len(wire')].request.message = Trim(view.value)
             /\ messages' = Append(messages, UserTurn(Trim(view.value))) ]_vars
    /\ [][ (Len(inflight') < Len(inflight)) =>
             UNCHANGED <<wire, inputValue, view>> ]_vars

C18_Witness ==
    /\ Len(messages) = 3
    /\ messages[2] = ErrorTurn
    /\ messages[3].sender = "user"
    /\ RequestsSent = 2
    /\ Len(inflight) = 1 /\ inflight[1].result.status = "pending"

\* no entry of the PDF record is ever removed or given another label
C19_NeverInvalidated ==
    [][ \A p \in DOMAIN availablePdfs :
          p \in DOMAIN availablePdfs' /\ availablePdfs'[p] = availablePdfs[p] ]_vars

\* C19: the PDF record is populated whenever a turn reports pdfGenerated =
\* true: in every reachable state it has an entry for the pdfId of every
\* assistant turn of the list with pdfGenerated = true.
C19_PdfRecordPopulated ==
    \A i \in 1..Len(messages) :
        (messages[i].sender = "ai" /\ messages[i].pdfGenerated = JsTrue)
            => messages[i].pdfId \in DOMAIN availablePdfs

\* C20: every request of the three backend calls is addressed to the
\* configured base URL: the override of the deployment configuration when one
\* is set, the local development default otherwise.
C20_SingleConfiguredBaseUrl ==
    \A u \in fetched : u.base = ConfigBaseUrl(envBaseUrl)

\* every request is addressed to the base URL of lib/api.ts, and the three
\* calls use the three routes
C20_AllToApiBaseUrl ==
    /\ \A u \in fetched : u.base = ApiBaseUrl
    /\ {u.path.route : u \in fetched} \subseteq {"/chat", "/health", "/download/"}

\* C21: the conversation list is append-only and its turns are immutable: in
\* every step (send, reply, failure, download, prompt selection, ...) the list
\* before the step is a prefix of the list after it, with the same ids,
\* contents, senders, pdfIds and pdfGenerated flags.
C21_AppendOnly ==
    [][ /\ Len(messages') >= Len(messages)
        /\ SubSeq(messages', 1, Len(messages)) = messages
        /\ Len(ids') = Len(messages')
        /\ SubSeq(ids', 1, Len(ids)) = ids ]_vars

C21_Witness ==
    /\ Len(messages) = 4
    /\ messages[2].pdfGenerated = JsTrue /\ messages[2].pdfId = "p1"
    /\ messages[4] = ErrorTurn
    /\ Len(downloads) >= 1 /\ downloads[1].status = "saved"
    /\ Len(ids) = 4

\* C24: turns strictly alternate: the list is user, assistant, user,
\* assistant, ... starting with a user turn, and its length is odd exactly
\* while a send is in flight (isLoading true), even otherwise.
C24_StrictAlternation ==
    /\ \A i \in 1..Len(messages) :
          messages[i].sender = (IF i % 2 = 1 THEN "user" ELSE "ai")
    /\ isLoading <=> (Len(messages) % 2 = 1)
    /\ isLoading <=> (Len(inflight) = 1)

C24_Witness ==
    /\ Len(messages) = 3
    /\ messages[2] = ErrorTurn
    /\ isLoading
    /\ Len(inflight) = 1 /\ inflight[1].result.status = "resolved"

\* C25: all turns of the list have pairwise distinct ids, the id of a user
\* turn being the clock value at submission and the id of an assistant turn
\* the clock value at the reply plus one, for any non-decreasing clock.
C25_DistinctIds ==
    \A i, j \in 1..Len(ids) : (i # j) => (ids[i] # ids[j])

\* C26: the character counter of the input box equals the length of the
\* input value, in every reachable state and in what is displayed.
C26_CounterEqualsLength ==
    /\ charCount = Length(inputValue)
    /\ charCount = Length(view.value)

\* a send call whose try branch runs to its end when it resumes
Succeeds(call) == call.result.status = "resolved" /\ ~Throws(call)

\* C27: the stored session id is write-once: it is empty until a successful
\* reply is handled; the handling of a successful reply sets it from that
\* reply when it is still empty and leaves it alone otherwise, whatever
\* session_id the reply carries; no other step, and no failed send, sets or
\* changes it; once non-empty it never changes.
C27_SessionIdWriteOnce ==
    /\ [](sessionId # "" =>
            \E j \in 1..Len(wire) : Delivers(wire[j])
                                     /\ wire[j].result.body.session_id = sessionId)
    /\ [][ (sessionId # "") => (sessionId' = sessionId) ]_vars
    /\ [][ \A i \in 1..Len(inflight) :
             (inflight' = Remove(inflight, i) /\ Len(messages') = Len(messages) + 1) =>
                 IF Succeeds(inflight[i]) /\ sessionId = ""
                 THEN sessionId' = inflight[i].result.body.session_id
                 ELSE sessionId' = sessionId ]_vars
    /\ [][ (inflight' = inflight) => (sessionId' = sessionId) ]_vars

C27_Witness ==
    /\ sessionId = "s1"
    /\ Len(wire) = 4
    /\ Delivers(wire[2]) /\ wire[2].result.body.session_id = "s1"
    /\ Delivers(wire[4]) /\ wire[4].result.body.session_id = "s2"
    /\ inflight = <<>>
    /\ Len(messages) = 4

\* the conditions under which the Input Box submits
SubmitAllowed == NonEmpty(Trim(view.value)) /\ ~view.disabled

\* C30: the Input Box submits only non-blank text and submits it trimmed: a
\* key press submits if and only if it is Enter without Shift, the trimmed
\* value is non-empty and the box is not disabled, and so does the Send click
\* (any key but Enter, and Shift+Enter, never submit); the user turn appended
\* is the trimmed input value, and no user turn of the list is empty or starts
\* or ends with white space.
C30_SubmitsTrimmedNonBlank ==
    /\ [](\A k \in {"Enter", "a"}, sh \in BOOLEAN :
            /\ ENABLED handleKeyPress(k, sh)
                  => (k = "Enter" /\ ~sh /\ SubmitAllowed)
            /\ (k = "Enter" /\ ~sh /\ SubmitAllowed /\ RequestsSent < MaxSends)
                  => ENABLED (handleKeyPress(k, sh)
                                /\ messages' = Append(messages, UserTurn(Trim(inputValue)))))
    /\ [](/\ ENABLED handleSend => SubmitAllowed
          /\ (SubmitAllowed /\ RequestsSent < MaxSends)
                => ENABLED (handleSend
                              /\ messages' = Append(messages, UserTurn(Trim(inputValue)))))
    /\ [](\A i \in 1..Len(messages) :
            isUser(messages[i]) =>
                /\ NonEmpty(messages[i].content)
                /\ Trim(messages[i].content) = messages[i].content)
    /\ [][ (RequestsSent' = RequestsSent + 1) =>
             /\ SubmitAllowed
             /\ messages'[Len(messages')].content = Trim(inputValue) ]_vars

C30_Witness ==
    /\ Len(messages) = 2
    /\ messages[1] = UserTurn(Txt(0, "x", maxChars - 2, 0))
    /\ inputValue = Txt(1, "", 0, 0)
    /\ view.value = inputValue /\ ~view.disabled
    /\ ~ENABLED handleSend

----------------------------------------------------------------------------
\* Properties of the Message Renderer, checked under RenderSpec

\* position i is inside the text of a URL that starts at position j < i
InsideUrlFrom(content, j, i) ==
    /\ content[j] = ImagePrefix
    /\ \A k \in (j + 1)..i : UrlTail(content[k])

\* the positions where a recognized image URL occurs in the text: the image
\* host prefix followed by at least one character of the URL, and not itself
\* part of a URL that started earlier
Occurrences(content) ==
    {i \in 1..Len(content) :
        /\ content[i] = ImagePrefix
        /\ i < Len(content) /\ UrlTail(content[i + 1])
        /\ ~\E j \in 1..(i - 1) : InsideUrlFrom(content, j, i)}

\* the text of the URL that occurs at position i: up to the next white space
\* or closing parenthesis
OccurrenceText(content, i) ==
    LET ends == {e \in i..Len(content) :
                    /\ \A k \in (i + 1)..e : UrlTail(content[k])
                    /\ (e = Len(content) \/ ~UrlTail(content[e + 1]))}
    IN SubSeq(content, i, CHOOSE e \in ends : TRUE)

\* C15: for every assistant text with n >= 0 recognized image URLs the renderer
\* emits exactly n image blocks, one per occurrence, in the order in which the
\* URLs occur in the text.
C15_OneImageBlockPerUrl ==
    rDone =>
        /\ Len(rBlocks) = Cardinality(Occurrences(rContent))
        /\ \A i \in Occurrences(rContent) :
              LET k == Cardinality({j \in Occurrences(rContent) : j <= i})
              IN rBlocks[k].src = OccurrenceText(rContent, i)

C15_Witness ==
    /\ rDone
    /\ rContent = <<ImagePrefix, ImagePrefix, " ", ImagePrefix, "x">>
    /\ Len(rBlocks) = 2
    /\ rBlocks[1].src = <<ImagePrefix, ImagePrefix>>
    /\ rBlocks[2].src = <<ImagePrefix, "x">>

\* text u occurs in text l
OccursIn(u, l) ==
    \E i \in 1..(Len(l) - Len(u) + 1) : SubSeq(l, i, i + Len(u) - 1) = u

\* the URLs for which the renderer emitted a block
ExtractedUrls ==
    {rBlocks[k].src : k \in 1..Len(rBlocks)}
      \cup {rCards[k].href : k \in 1..Len(rCards)}
      \cup {rVideos[k].src : k \in 1..Len(rVideos)}

\* C23: no duplicate display: for every assistant text, no URL extracted into
\* an image block, a PDF card or a video block occurs in a rendered text line.
C23_NoDuplicateDisplay ==
    rDone =>
        \A u \in ExtractedUrls :
            \A k \in 1..Len(rLines) : ~OccursIn(u, rLines[k].html)

C23_Witness ==
    /\ rDone
    /\ rContent = <<EmbedPrefix, "x", "\n", "x">>
    /\ Len(rVideos) = 1 /\ rVideos[1].src = <<EmbedPrefix, "x">>
    /\ rLines = <<[index |-> 1, html |-> <<"x">>]>>

\* the source lines that may be left out of the text body: a block was emitted
\* for a URL on the line, or the line has the markdown image shape or the bold
\* heading shape
MayOmit(line) ==
    \/ \E u \in ExtractedUrls : OccursIn(u, line)
    \/ MatchesMdImage(line)
    \/ MatchesBoldHeading(line)
    \/ StartsBold(line)

\* C28: the renderer loses no content: every source line that has no
\* extracted URL on it and has neither the markdown image nor the bold heading
\* shape is rendered exactly once, and the rendered lines are in source
\* order.
C28_NoContentLost ==
    rDone =>
        LET lines == Split(rContent) IN
        /\ \A i \in 1..Len(lines) :
              ~MayOmit(lines[i]) =>
                 /\ Cardinality({k \in 1..Len(rLines) : rLines[k].index = i - 1}) = 1
                 /\ \A k \in 1..Len(rLines) :
                       (rLines[k].index = i - 1) => rLines[k].html = LineHtml(lines[i])
        /\ \A k, l \in 1..Len(rLines) : (k < l) => (rLines[k].index < rLines[l].index)

\* every source line that the filter does not skip is rendered exactly once,
\* in source order
C28_KeptLinesRendered ==
    rDone =>
        LET lines == Split(rContent) IN
        /\ \A i \in 1..Len(lines) :
              Cardinality({k \in 1..Len(rLines) : rLines[k].index = i - 1})
                  = (IF SkipLine(lines[i]) THEN 0 ELSE 1)
        /\ \A k, l \in 1..Len(rLines) : (k < l) => (rLines[k].index < rLines[l].index)

----------------------------------------------------------------------------
\* Further properties of the PDF Preview Modal, checked under ModalSpec

\* C22: the preview modal is a two-state machine: it starts in Viewing, goes
\* from Viewing to Editing only on Edit and from Editing to Viewing only on
\* Cancel or Save; Save and Cancel are offered only in Editing, Edit and
\* Download only in Viewing (Save only when it is enabled).
C22_TwoStateMachine ==
    /\ []((lastEvent = NoEvent) => ~isEditing)
    /\ [][ (~isEditing /\ isEditing') => lastEvent'.name = "edit" ]_vars
    /\ [][ (isEditing /\ ~isEditing') => lastEvent'.name \in {"cancel", "save"} ]_vars
    /\ [][ (lastEvent'.name \in {"edit", "cancel", "save"} /\ lastEvent' # lastEvent)
             => (isEditing' # isEditing) ]_vars
    /\ [](/\ ENABLED handleSaveEdits => isEditing
          /\ ENABLED handleCancelEdit => isEditing
          /\ ENABLED ClickEdit => ~isEditing
          /\ ENABLED ClickDownload => ~isEditing)
    /\ [](Shown =>
            IF isEditing
            THEN /\ ENABLED handleCancelEdit
                 /\ (SaveEnabled /\ Len(callbacks) < MaxCallbacks) => ENABLED handleSaveEdits
            ELSE /\ ENABLED ClickEdit
                 /\ (Len(callbacks) < MaxCallbacks) => ENABLED ClickDownload)

C22_Witness ==
    /\ Shown /\ ~isEditing
    /\ lastEvent.name = "cancel"
    /\ SavedTexts # <<>>

\* C29: text committed by Save stays committed: once a text has been saved,
\* whenever the modal is in Viewing it shows the text saved last (the
\* pdfContent prop never changes).
C29_SavedTextStays ==
    (SavedTexts # <<>> /\ ~isEditing) => editedContent = LastSaved

====
